---- MODULE Spec2Model ----
(***************************************************************************)
(* A model of mllp-rs (src/src/lib.rs): the MLLP frame codec MllpCodec     *)
(* (encode, decode, ack, nak, is_ack, is_nak) and the client/server        *)
(* exchange of the test listen_and_receive_mllp_packet.                    *)
(*                                                                         *)
(* Bytes are naturals below 256, byte slices and Vec<u8> are sequences.    *)
(* Rust indexes from 0 and TLA+ from 1: the Rust byte with[i] is with[i+1] *)
(* here, and the Rust slice with[a..b] is SubSeq(with, a+1, b).            *)
(***************************************************************************)
EXTENDS Naturals, Sequences, FiniteSets

(***************************************************************************)
(* Bounds of the model.                                                    *)
(***************************************************************************)
\* longest byte sequence handed to the codec
MaxLen == 5
\* longest message sent in the client/server exchange
MaxData == 2

(***************************************************************************)
(* The constants of lib.rs (decimal u8 literals).                          *)
(***************************************************************************)
SB == 11
EB == 28
CR == 13
ACK == 6
NAK == 15

\* The byte values the inputs are drawn from: the five constants and 'A'.
Byte == {SB, EB, CR, ACK, NAK, 65}

\* All sequences over S of length at most n.
BoundedSeq(S, n) == UNION {[1..k -> S] : k \in 0..n}

VARIABLES
  \* codec calls
  input,     \* the byte sequence the caller starts from
  with,      \* the argument of the latest call (the parameter name of lib.rs)
  op,        \* the latest call
  ret,       \* what the latest call returned
  chained,   \* whether the latest call took the previous call's return value
  \* the exchange of listen_and_receive_mllp_packet
  data,      \* the message of the test
  pcS,       \* position of the server thread (handler)
  pcC,       \* position of the client thread (handler2)
  chan,      \* messages in the mpsc channel
  txAlive,   \* the channel's Sender has not been dropped
  listening, \* the TcpListener is bound
  conn,      \* the TCP connection: "none", "pending" (in the backlog), "accepted"
  wire,      \* bytes written by the client and not yet read by the server
  finSent,   \* the client has closed its end of the connection
  buf,       \* the server's buf: Vec<u8>
  decoded    \* the server's decoded_data

codecVars == <<input, with, op, ret, chained>>
netVars == <<data, pcS, pcC, chan, txAlive, listening, conn, wire, finSent, buf, decoded>>
vars == <<input, with, op, ret, chained,
          data, pcS, pcC, chan, txAlive, listening, conn, wire, finSent, buf, decoded>>

(***************************************************************************)
(* Values returned by the calls.                                           *)
(***************************************************************************)
NoRet == [tag |-> "none", val |-> <<>>, flag |-> FALSE]
\* a Vec<u8> or [u8; 4]
Vec(v) == [tag |-> "Vec", val |-> v, flag |-> FALSE]
\* Result<&[u8], MllpSyntaxError>
Ok(v) == [tag |-> "Ok", val |-> v, flag |-> FALSE]
MllpSyntaxError == [tag |-> "Err", val |-> <<>>, flag |-> FALSE]
\* assert! failed: the call panics and returns nothing
Panic == [tag |-> "Panic", val |-> <<>>, flag |-> FALSE]
Bool(b) == [tag |-> "Bool", val |-> <<>>, flag |-> b]

(***************************************************************************)
(* MllpCodec                                                               *)
(***************************************************************************)
\* faulty variant: the two trailer bytes pushed in the wrong order
encode_swapped(w) == (<<SB>> \o w) \o <<CR, EB>>

\* buf.push(SB); buf.extend(with.iter()); buf.push(EB); buf.push(CR)
encode(w) == Append(Append(<<SB>> \o w, EB), CR)

\* faulty variant: the end block is not checked
decode_no_eb(w) ==
  IF Len(w) < 4 THEN Panic
  ELSE LET sb == w[1]
           hl7 == SubSeq(w, 2, Len(w) - 2)
           cr == w[Len(w)]
       IN  IF sb = SB /\ cr = CR THEN Ok(hl7) ELSE MllpSyntaxError

\* faulty variant: the assertion admits three bytes
decode_assert3(w) ==
  IF Len(w) < 3 THEN Panic
  ELSE LET sb == w[1]
           hl7 == SubSeq(w, 2, Len(w) - 2)
           eb == w[Len(w) - 1]
           cr == w[Len(w)]
       IN  IF sb = SB /\ eb = EB /\ cr = CR THEN Ok(hl7) ELSE MllpSyntaxError

\* faulty variant: the payload ends at the first <EB><CR> found
decode_scan(w) ==
  IF Len(w) < 4 THEN Panic
  ELSE LET sb == w[1]
           ends == {i \in 2..(Len(w) - 1) : w[i] = EB /\ w[i + 1] = CR}
           eb == w[Len(w) - 1]
           cr == w[Len(w)]
       IN  IF sb = SB /\ eb = EB /\ cr = CR
           THEN Ok(SubSeq(w, 2, (CHOOSE i \in ends : \A j \in ends : i <= j) - 1))
           ELSE MllpSyntaxError

\* faulty variant: the checks are joined by || instead of &&
decode_any(w) ==
  IF Len(w) < 4 THEN Panic
  ELSE LET sb == w[1]
           hl7 == SubSeq(w, 2, Len(w) - 2)
           eb == w[Len(w) - 1]
           cr == w[Len(w)]
       IN  IF sb = SB \/ eb = EB \/ cr = CR THEN Ok(hl7) ELSE MllpSyntaxError

\* assert!(with.len() >= 4); sb = with[0]; hl7 = &with[1..with.len() - 2];
\* eb = with[with.len() - 2]; cr = with[with.len() - 1]
decode(w) ==
  IF ~(Len(w) >= 4) THEN Panic
  ELSE LET sb == w[1]
           hl7 == SubSeq(w, 2, Len(w) - 2)
           eb == w[Len(w) - 1]
           cr == w[Len(w)]
       IN  IF sb = SB /\ eb = EB /\ cr = CR THEN Ok(hl7) ELSE MllpSyntaxError

ack == <<SB, ACK, EB, CR>>

nak == <<SB, NAK, EB, CR>>

\* faulty variant: compares the common prefix only (no length check)
slice_eq_prefix(a, b) ==
  \A i \in 1..(IF Len(a) < Len(b) THEN Len(a) ELSE Len(b)) : a[i] = b[i]

\* `with == Self::ack()`: equality of a slice and an array, that is equal
\* lengths and equal bytes at every index
slice_eq(a, b) == Len(a) = Len(b) /\ \A i \in 1..Len(a) : a[i] = b[i]

is_ack(w) == slice_eq(w, ack)

is_nak(w) == slice_eq(w, nak)

(***************************************************************************)
(* Calls of the codec.  Each call is made on the caller's input or, when   *)
(* chained, on what the previous call returned.                            *)
(***************************************************************************)
Call(name, arg, result, ch) ==
  /\ op' = name
  /\ with' = arg
  /\ ret' = result
  /\ chained' = ch
  /\ UNCHANGED input
  /\ UNCHANGED netVars

CallEncode == Call("encode", input, Vec(encode(input)), FALSE)

CallDecode == Call("decode", input, decode(input), FALSE)

\* decode(encode(input).as_slice())
CallDecodeEncoded ==
  /\ op = "encode" /\ ~chained
  /\ Call("decode", ret.val, decode(ret.val), TRUE)

\* encode(decode(input)?)
CallEncodeDecoded ==
  /\ op = "decode" /\ ~chained /\ ret.tag = "Ok"
  /\ Call("encode", ret.val, Vec(encode(ret.val)), TRUE)

CallAck == Call("ack", <<>>, Vec(ack), FALSE)

CallNak == Call("nak", <<>>, Vec(nak), FALSE)

CallIsAck == Call("is_ack", input, Bool(is_ack(input)), FALSE)

CallIsNak == Call("is_nak", input, Bool(is_nak(input)), FALSE)

\* is_ack(&ack()) and is_ack(&nak())
CallIsAckOfFrame ==
  /\ op \in {"ack", "nak"}
  /\ Call("is_ack", ret.val, Bool(is_ack(ret.val)), TRUE)

\* is_nak(&nak()) and is_nak(&ack())
CallIsNakOfFrame ==
  /\ op \in {"ack", "nak"}
  /\ Call("is_nak", ret.val, Bool(is_nak(ret.val)), TRUE)

NetOff ==
  /\ data = <<>>
  /\ pcS = "off"
  /\ pcC = "off"
  /\ chan = <<>>
  /\ txAlive = FALSE
  /\ listening = FALSE
  /\ conn = "none"
  /\ wire = <<>>
  /\ finSent = FALSE
  /\ buf = <<>>
  /\ decoded = NoRet

Init ==
  /\ input \in BoundedSeq(Byte, MaxLen)
  /\ with = <<>>
  /\ op = "none"
  /\ ret = NoRet
  /\ chained = FALSE
  /\ NetOff

Next ==
  \/ CallEncode
  \/ CallDecode
  \/ CallDecodeEncoded
  \/ CallEncodeDecoded
  \/ CallAck
  \/ CallNak
  \/ CallIsAck
  \/ CallIsNak
  \/ CallIsAckOfFrame
  \/ CallIsNakOfFrame

Spec == Init /\ [][Next]_vars

(***************************************************************************)
(* tests::listen_and_receive_mllp_packet                                   *)
(*                                                                         *)
(* Two threads: the server (handler) binds a listener, signals on the mpsc *)
(* channel, accepts one connection, reads it to end-of-stream, decodes and *)
(* compares; the client (handler2) waits on the channel, connects, writes  *)
(* the encoded message and drops the stream.  `data` is a &str: a sequence *)
(* of code points, here below 0x800, so that UTF-8 takes one or two bytes. *)
(***************************************************************************)
\* The code points the message is drawn from: the three sentinels, 'A' and
\* the pilcrow U+00B6 of the test's message (two bytes in UTF-8).
Char == {SB, EB, CR, 65, 182}

RECURSIVE as_bytes(_)
\* str::as_bytes: the UTF-8 encoding of the string
as_bytes(s) ==
  IF s = <<>> THEN <<>>
  ELSE LET c == Head(s)
       IN  (IF c < 128 THEN <<c>> ELSE <<192 + (c \div 64), 128 + (c % 64)>>)
           \o as_bytes(Tail(s))

RECURSIVE from_utf8_lossy(_)
\* String::from_utf8_lossy: valid sequences are decoded, every other byte
\* becomes U+FFFD
from_utf8_lossy(b) ==
  IF b = <<>> THEN <<>>
  ELSE IF b[1] < 128 THEN <<b[1]>> \o from_utf8_lossy(Tail(b))
  ELSE IF /\ b[1] \in 194..223
          /\ Len(b) >= 2
          /\ b[2] \in 128..191
       THEN <<(b[1] - 192) * 64 + (b[2] - 128)>> \o from_utf8_lossy(Tail(Tail(b)))
  ELSE <<65533>> \o from_utf8_lossy(Tail(b))

\* let listener = TcpListener::bind(addr).unwrap();
ServerBind ==
  /\ pcS = "bind"
  /\ listening' = TRUE
  /\ pcS' = "send"
  /\ UNCHANGED <<data, pcC, chan, txAlive, conn, wire, finSent, buf, decoded>>
  /\ UNCHANGED codecVars

\* tx.send(true).unwrap(): fails, and the unwrap panics, once the Receiver
\* is gone
ServerSend ==
  /\ pcS = "send"
  /\ IF pcC \in {"done", "panicked"}
     THEN pcS' = "panicked" /\ txAlive' = FALSE /\ listening' = FALSE /\ chan' = chan
     ELSE pcS' = "accept" /\ chan' = Append(chan, TRUE) /\ UNCHANGED <<txAlive, listening>>
  /\ UNCHANGED <<data, pcC, conn, wire, finSent, buf, decoded>>
  /\ UNCHANGED codecVars

\* for stream in listener.incoming(): blocks until a connection is pending;
\* assert!(stream.is_ok()); let mut buf: Vec<u8> = vec![];
ServerAccept ==
  /\ pcS = "accept"
  /\ conn = "pending"
  /\ conn' = "accepted"
  /\ buf' = <<>>
  /\ pcS' = "read"
  /\ UNCHANGED <<data, pcC, chan, txAlive, listening, wire, finSent, decoded>>
  /\ UNCHANGED codecVars

\* faulty variant: one read call instead of read_to_end
ServerRead_once ==
  /\ pcS = "read"
  /\ wire # <<>>
  /\ \E k \in 1..Len(wire) :
       /\ buf' = buf \o SubSeq(wire, 1, k)
       /\ wire' = SubSeq(wire, k + 1, Len(wire))
  /\ pcS' = "decode"
  /\ UNCHANGED <<data, pcC, chan, txAlive, listening, conn, finSent, decoded>>
  /\ UNCHANGED codecVars

\* stream.unwrap().read_to_end(&mut buf): read calls, each taking some of the
\* bytes that have arrived, until a read returns 0, which it does once the
\* peer has closed and nothing is left; with nothing to read and the peer
\* still open the read blocks
ServerRead ==
  /\ pcS = "read"
  /\ \/ /\ wire # <<>>
        /\ \E k \in 1..Len(wire) :
             /\ buf' = buf \o SubSeq(wire, 1, k)
             /\ wire' = SubSeq(wire, k + 1, Len(wire))
        /\ UNCHANGED pcS
     \/ /\ wire = <<>>
        /\ finSent
        /\ pcS' = "decode"
        /\ UNCHANGED <<buf, wire>>
  /\ UNCHANGED <<data, pcC, chan, txAlive, listening, conn, finSent, decoded>>
  /\ UNCHANGED codecVars

\* MllpCodec::decode(buf.as_slice()).unwrap(): a panic of decode or of the
\* unwrap unwinds the thread, which drops tx and the listener
ServerDecode ==
  /\ pcS = "decode"
  /\ decoded' = decode(buf)
  /\ IF decode(buf).tag = "Ok"
     THEN pcS' = "assert" /\ UNCHANGED <<txAlive, listening>>
     ELSE pcS' = "panicked" /\ txAlive' = FALSE /\ listening' = FALSE
  /\ UNCHANGED <<data, pcC, chan, conn, wire, finSent, buf>>
  /\ UNCHANGED codecVars

\* assert_eq!(String::from_utf8_lossy(..), data); break;
ServerAssert ==
  /\ pcS = "assert"
  /\ IF from_utf8_lossy(decoded.val) = data
     THEN pcS' = "drop" /\ UNCHANGED <<txAlive, listening>>
     ELSE pcS' = "panicked" /\ txAlive' = FALSE /\ listening' = FALSE
  /\ UNCHANGED <<data, pcC, chan, conn, wire, finSent, buf, decoded>>
  /\ UNCHANGED codecVars

\* drop(listener);
ServerDrop ==
  /\ pcS = "drop"
  /\ listening' = FALSE
  /\ pcS' = "exit"
  /\ UNCHANGED <<data, pcC, chan, txAlive, conn, wire, finSent, buf, decoded>>
  /\ UNCHANGED codecVars

\* the closure returns: tx, moved into it, is dropped
ServerExit ==
  /\ pcS = "exit"
  /\ txAlive' = FALSE
  /\ pcS' = "done"
  /\ UNCHANGED <<data, pcC, chan, listening, conn, wire, finSent, buf, decoded>>
  /\ UNCHANGED codecVars

\* for received in rx: takes the next message; blocks while the channel is
\* empty and tx is alive; ends once it is empty and tx is dropped
ClientRecv ==
  /\ pcC = "recv"
  /\ \/ /\ chan # <<>>
        /\ chan' = Tail(chan)
        /\ pcC' = IF Head(chan) THEN "connect" ELSE "recv"
     \/ /\ chan = <<>>
        /\ ~txAlive
        /\ pcC' = "done"
        /\ UNCHANGED chan
  /\ UNCHANGED <<data, pcS, txAlive, listening, conn, wire, finSent, buf, decoded>>
  /\ UNCHANGED codecVars

\* TcpStream::connect_timeout(&socket_addr, ..).unwrap(): the connection is
\* queued in the listener's backlog; refused, and the unwrap panics, when
\* nothing listens
ClientConnect ==
  /\ pcC = "connect"
  /\ IF listening
     THEN conn' = "pending" /\ pcC' = "write"
     ELSE conn' = conn /\ pcC' = "panicked"
  /\ UNCHANGED <<data, pcS, chan, txAlive, listening, wire, finSent, buf, decoded>>
  /\ UNCHANGED codecVars

\* let _ = stream.write(MllpCodec::encode(original_data.as_bytes()).as_slice());
\* one write on a blocking socket, of a buffer the socket's send buffer
\* holds: all the bytes are queued
ClientWrite ==
  /\ pcC = "write"
  /\ wire' = wire \o encode(as_bytes(data))
  /\ pcC' = "close"
  /\ UNCHANGED <<data, pcS, chan, txAlive, listening, conn, finSent, buf, decoded>>
  /\ UNCHANGED codecVars

\* end of the if block: stream is dropped, which closes the connection
ClientClose ==
  /\ pcC = "close"
  /\ finSent' = TRUE
  /\ pcC' = "recv"
  /\ UNCHANGED <<data, pcS, chan, txAlive, listening, conn, wire, buf, decoded>>
  /\ UNCHANGED codecVars

Server ==
  \/ ServerBind
  \/ ServerSend
  \/ ServerAccept
  \/ ServerRead
  \/ ServerDecode
  \/ ServerAssert
  \/ ServerDrop
  \/ ServerExit

Client ==
  \/ ClientRecv
  \/ ClientConnect
  \/ ClientWrite
  \/ ClientClose

CodecOff ==
  /\ input = <<>>
  /\ with = <<>>
  /\ op = "none"
  /\ ret = NoRet
  /\ chained = FALSE

\* The state when both threads have been spawned; the message is any
\* non-empty string of at most MaxData code points.
ExchangeInit ==
  /\ CodecOff
  /\ data \in BoundedSeq(Char, MaxData) \ {<<>>}
  /\ pcS = "bind"
  /\ pcC = "recv"
  /\ chan = <<>>
  /\ txAlive = TRUE
  /\ listening = FALSE
  /\ conn = "none"
  /\ wire = <<>>
  /\ finSent = FALSE
  /\ buf = <<>>
  /\ decoded = NoRet

ExchangeNext == Server \/ Client

\* Each thread that can take a step eventually takes one.
ExchangeSpec ==
  ExchangeInit /\ [][ExchangeNext]_vars /\ WF_vars(Server) /\ WF_vars(Client)


(***************************************************************************)
(* Properties of the codec, checked under Spec.                            *)
(***************************************************************************)
\* The payloads whose frame is no longer than MaxLen.
Payloads == BoundedSeq(Byte, MaxLen - 3)

\* The bytes of w at the Rust offsets 1 up to but excluding len-2.
Interior(w) == [i \in 1..(Len(w) - 3) |-> w[i + 1]]

\* C1: round trip. For every byte sequence p, the empty one included,
\* decode(encode(p)) returns Ok and the payload returned is exactly p.
C1_RoundTrip ==
  (op = "decode" /\ chained) => ret = Ok(input)

\* C2: for every payload p, encode(p) returns (never fails) a sequence of
\* length len(p)+3 whose first byte is 0x0B, whose next len(p) bytes are p in
\* order, whose second-to-last byte is 0x1C and whose last byte is 0x0D.
C2_EncodeLayout ==
  (op = "encode" /\ ~chained) =>
    /\ ret.tag = "Vec"
    /\ Len(ret.val) = Len(input) + 3
    /\ ret.val[1] = 11
    /\ \A i \in 1..Len(input) : ret.val[i + 1] = input[i]
    /\ ret.val[Len(ret.val) - 1] = 28
    /\ ret.val[Len(ret.val)] = 13

C2_Witness ==
  /\ op = "encode" /\ ~chained
  /\ Len(input) = 2 /\ input[1] = CR /\ input[2] = EB
  /\ ret = Vec(<<11, 13, 28, 28, 13>>)

\* C3: sentinel rejection. For every input of length >= 4 in which byte 0 is
\* not 0x0B, or byte len-2 is not 0x1C, or byte len-1 is not 0x0D, decode
\* returns Err(MllpSyntaxError) and no payload, whatever the other bytes are.
C3_SentinelRejection ==
  (/\ op = "decode"
   /\ Len(with) >= 4
   /\ \/ with[1] # 11
      \/ with[Len(with) - 1] # 28
      \/ with[Len(with)] # 13)
  => ret = MllpSyntaxError

\* decode([0x0B, 'A', 0x06, 0x0D]): only the end block is wrong
C3_Witness ==
  /\ op = "decode"
  /\ with = <<11, 65, 6, 13>>
  /\ ret.tag = "Err"

\* C4: control frames. ack() returns exactly 0x0B 0x06 0x1C 0x0D and nak()
\* returns exactly 0x0B 0x15 0x1C 0x0D.
C4_ControlFrames ==
  /\ op = "ack" => ret = Vec(<<11, 6, 28, 13>>)
  /\ op = "nak" => ret = Vec(<<11, 21, 28, 13>>)

\* C5: the recognizers are total and exact. For every byte sequence c of any
\* length, is_ack(c) returns a boolean that is true exactly when c is the
\* output of ack(), and is_nak(c) one that is true exactly when c is the
\* output of nak(); is_ack(ack()) and is_nak(nak()) are true, is_ack(nak())
\* and is_nak(ack()) are false.
C5_Recognizers ==
  /\ op = "is_ack" => (ret.tag = "Bool" /\ (ret.flag <=> with = ack))
  /\ op = "is_nak" => (ret.tag = "Bool" /\ (ret.flag <=> with = nak))
  /\ (op = "is_ack" /\ chained /\ with = ack) => ret = Bool(TRUE)
  /\ (op = "is_nak" /\ chained /\ with = nak) => ret = Bool(TRUE)
  /\ (op = "is_ack" /\ chained /\ with = nak) => ret = Bool(FALSE)
  /\ (op = "is_nak" /\ chained /\ with = ack) => ret = Bool(FALSE)

\* is_ack of a five-byte sequence that starts with the ACK frame is false
C5_Witness ==
  /\ op = "is_ack"
  /\ Len(with) = 5
  /\ SubSeq(with, 1, 4) = ack
  /\ ret = Bool(FALSE)

\* C6: for every input of length 0, 1, 2 or 3 decode panics (the assertion
\* fails) and returns neither a payload nor the framing error; for every
\* input of length >= 4 decode does not panic and returns a payload or the
\* framing error.
C6_ShortInputPanics ==
  op = "decode" =>
    /\ Len(with) \in 0..3 => ret = Panic
    /\ Len(with) >= 4 => ret.tag \in {"Ok", "Err"}

C6_Witness ==
  /\ op = "decode"
  /\ Len(with) = 3
  /\ ret = Panic

\* C7: the frame of the empty payload, the bytes 0x0B 0x1C 0x0D (the output
\* of encode on the empty payload), is accepted by decode, which returns the
\* empty payload.
C7_EmptyPayloadFrame ==
  (op = "decode" /\ with = <<11, 28, 13>>) => ret = Ok(<<>>)

\* C8: decode inspects the three fixed offsets only. For every input f of
\* length >= 4 with f[0] = 0x0B, f[len-2] = 0x1C and f[len-1] = 0x0D, decode
\* returns Ok with exactly the bytes at offsets 1 up to but excluding len-2,
\* whatever they are (0x0B, 0x1C, 0x0D and the pair 0x1C 0x0D included).
C8_FixedOffsets ==
  (/\ op = "decode"
   /\ Len(with) >= 4
   /\ with[1] = 11
   /\ with[Len(with) - 1] = 28
   /\ with[Len(with)] = 13)
  => ret = Ok(Interior(with))

\* the interior is itself the pair 0x1C 0x0D
C8_Witness ==
  /\ op = "decode"
  /\ with = <<11, 28, 13, 28, 13>>
  /\ ret = Ok(<<28, 13>>)

\* C10: inverse round trip. For every input f of length >= 4, if decode(f)
\* returns Ok(p) then encode(p) is byte for byte f; decode accepts exactly the
\* sequences of length >= 4 that encode produces; and encode is injective.
C10_InverseRoundTrip ==
  /\ (op = "encode" /\ chained) => ret = Vec(input)
  /\ (op = "decode" /\ ~chained /\ Len(with) >= 4) =>
       (ret.tag = "Ok" <=> \E p \in Payloads : encode(p) = with)
  /\ (op = "encode" /\ ~chained) =>
       \A q \in Payloads : encode(q) = ret.val => q = input

C10_Witness ==
  /\ op = "encode" /\ chained
  /\ input = <<11, 13, 28, 28, 13>>
  /\ with = <<13, 28>>
  /\ ret.val = input

(***************************************************************************)
(* Properties of the exchange, checked under ExchangeSpec.                 *)
(***************************************************************************)
\* C9: in the exchange of listen_and_receive_mllp_packet the client connects
\* only after the server has bound its listener and signalled on the
\* channel; the client sends encode(data) and closes; the server reads to
\* end-of-stream and decodes what it read; in every interleaving the decode
\* succeeds and yields exactly data (no thread panics), and both threads
\* terminate, the client once the server's Sender is dropped.
C9_Exchange ==
  /\ [](pcC \in {"connect", "write", "close"} =>
          (listening /\ pcS \notin {"bind", "send"}))
  /\ [](pcS = "decode" =>
          (finSent /\ wire = <<>> /\ buf = encode(as_bytes(data))))
  /\ [](pcS \in {"assert", "drop", "exit", "done"} =>
          (decoded = Ok(as_bytes(data)) /\ from_utf8_lossy(decoded.val) = data))
  /\ [](pcS # "panicked" /\ pcC # "panicked")
  /\ [](pcC = "done" => ~txAlive)
  /\ <>[](pcS = "done" /\ pcC = "done")

\* both threads have finished after a message with a two-byte character
C9_Witness ==
  /\ pcS = "done" /\ pcC = "done"
  /\ data = <<182, CR>>
  /\ buf = <<11, 194, 182, 13, 28, 13>>
  /\ decoded = Ok(<<194, 182, 13>>)

====
